---------------------------- MODULE Spec2Model ----------------------------
(* A model of the interactive shell of src/src/main.rs: the command loop  *)
(* of main, execute_pipeline, execute_command, and the child processes    *)
(* and kernel pipes that std::process::Command creates for them.          *)
(*                                                                        *)
(* A line is a sequence of symbols: a blank, the pipe delimiter, or a     *)
(* letter group that stands for a run of non-blank characters.  A word is *)
(* a maximal run of letter groups; the words <<"gen">>, <<"cat">>,        *)
(* <<"false">> and <<"kill">> name programs found on PATH, every other    *)
(* word (such as <<"quit">> used as a pipeline stage, or <<"gen","cat">>) *)
(* names none.  <<"kill">> as the first word of a single command is the   *)
(* built-in of main.                                                      *)
EXTENDS Integers, Sequences, FiniteSets, TLC

(* ---------------------------- bounds ---------------------------------- *)

\* Longest line the user types, in symbols.
MaxLineLen == 5

\* Capacity of one kernel pipe buffer, in bytes.
PipeCapacity == 1

\* Longest byte sequence a producing program writes (or the user types to a
\* program reading the terminal): one byte more than a pipe buffer holds.
MaxData == PipeCapacity + 1

(* ---------------------------- lines ----------------------------------- *)

Blank == " "
Bar == "|"
Letters == {"gen", "cat", "false", "kill", "quit"}
Sym == {Blank, Bar} \cup Letters

Lines == UNION {[1..n -> Sym] : n \in 0..MaxLineLen}

\* The byte sequences a data source yields: <<>>, <<1>>, <<1,2>>, ...
DataSeqs == {[j \in 1..n |-> j] : n \in 0..MaxData}

RECURSIVE TrimStart(_)
TrimStart(s) ==
  IF s # <<>> /\ Head(s) = Blank THEN TrimStart(Tail(s)) ELSE s

RECURSIVE TrimEnd(_)
TrimEnd(s) ==
  IF s # <<>> /\ s[Len(s)] = Blank THEN TrimEnd(SubSeq(s, 1, Len(s) - 1)) ELSE s

\* str::trim
Trim(s) == TrimEnd(TrimStart(s))

\* str::split(delim): one piece more than there are delimiters; empty pieces
\* are kept, and the empty string splits into one empty piece.
RECURSIVE Split(_, _)
Split(s, d) ==
  IF \A k \in 1..Len(s) : s[k] # d
    THEN <<s>>
    ELSE LET p == CHOOSE k \in 1..Len(s) :
                    s[k] = d /\ \A m \in 1..(k - 1) : s[m] # d
         IN <<SubSeq(s, 1, p - 1)>> \o Split(SubSeq(s, p + 1, Len(s)), d)

\* The first word of a string that starts with a non-blank symbol.
RECURSIVE FirstWord(_)
FirstWord(s) ==
  IF s = <<>> \/ Head(s) = Blank THEN <<>>
  ELSE <<Head(s)>> \o FirstWord(Tail(s))

\* str::split_whitespace: the non-empty words, in order.
RECURSIVE SplitWhitespace(_)
SplitWhitespace(s) ==
  LET t == TrimStart(s) IN
  IF t = <<>> THEN <<>>
  ELSE LET wd == FirstWord(t)
       IN <<wd>> \o SplitWhitespace(SubSeq(t, Len(wd) + 1, Len(t)))

\* input.split('|').map(|s| s.trim()).collect()
SplitCommands(input) ==
  LET pieces == Split(input, Bar)
  IN [k \in 1..Len(pieces) |-> Trim(pieces[k])]

\* What one successful read_line leaves in `input` and `commands`.
ParsedLines ==
  {[input |-> Trim(l), commands |-> SplitCommands(Trim(l))] : l \in Lines}

\* The programs Command::new finds on PATH.
Programs == {<<"gen">>, <<"cat">>, <<"false">>, <<"kill">>}
Found(word) == word \in Programs
ProgramOf(word) == word[1]

\* The arms of `match args[0]` in main that a word of the alphabet can name.
Builtins == {<<"kill">>}
IsBuiltin(word) == word \in Builtins

\* if commands.len() > 1
IsPipelineAlways(cmds) == Len(cmds) >= 1
IsPipeline(cmds) == Len(cmds) > 1

(* ---------------------------- state ----------------------------------- *)

VARIABLES
  pc,         \* where the shell process is
  commands,   \* main: commands, execute_pipeline: commands
  i,          \* execute_pipeline: index of the spawn loop (0-based)
  child,      \* execute_pipeline: `child` between spawn and push
  processes,  \* execute_pipeline: processes, the handles pushed so far
  w,          \* execute_pipeline: number of handles the wait loop consumed
  procs,      \* the OS processes spawned for the current line, in spawn order
  pipes,      \* the kernel pipes created for the current line, in creation order
  tty,        \* bytes written to the terminal since the last prompt
  stderr,     \* messages the shell wrote to its error stream since the last prompt
  spawnLog,   \* history: stage indices in the order their spawn succeeded
  waitLog,    \* history: stage indices in the order their wait began
  statuses,   \* history: the exit statuses the waits yielded, in wait order
  exitLog,    \* history: stage indices in the order the children exited
  handler,    \* history: what main dispatched the current line to
  lastRead    \* history: how the last read_line ended

vars == <<pc, commands, i, child, processes, w, procs, pipes, tty, stderr,
          spawnLog, waitLog, statuses, exitLog, handler, lastRead>>

\* Option<ChildStdin> / Option<ChildStdout>: 0 is None, p > 0 is Some(end of pipes[p]).
None == 0
NoChild == [stdin |-> None, stdout |-> None]

Init ==
  /\ pc = "prompt"
  /\ commands = <<>>
  /\ i = 0
  /\ child = NoChild
  /\ processes = <<>>
  /\ w = 0
  /\ procs = <<>>
  /\ pipes = <<>>
  /\ tty = <<>>
  /\ stderr = <<>>
  /\ spawnLog = <<>>
  /\ waitLog = <<>>
  /\ statuses = <<>>
  /\ exitLog = <<>>
  /\ handler = "none"
  /\ lastRead = "none"

(* ---------------------------- pipes ----------------------------------- *)

\* A kernel pipe: its buffer and who holds an open descriptor of each end.
\* pr/pw: the shell holds the read/write end; cr/cw: the child it was made for.

\* Stdio::piped() for a child's stdin: the child reads, the shell keeps the write end.
NewStdinPipe == [buf |-> <<>>, pr |-> FALSE, pw |-> TRUE, cr |-> TRUE, cw |-> FALSE]

\* Stdio::piped() for a child's stdout: the child writes, the shell keeps the read end.
NewStdoutPipe == [buf |-> <<>>, pr |-> TRUE, pw |-> FALSE, cr |-> FALSE, cw |-> TRUE]

\* Dropping a ChildStdout closes the shell's read end.
CloseParentRead(ps, p) == IF p = None THEN ps ELSE [ps EXCEPT ![p].pr = FALSE]

\* Dropping a ChildStdin closes the shell's write end.
CloseParentWrite(ps, p) == IF p = None THEN ps ELSE [ps EXCEPT ![p].pw = FALSE]

\* Dropping a Child closes the stream ends it still holds (it neither kills nor waits).
DropChildLeak(ps, h) == ps
DropChild(ps, h) == CloseParentRead(CloseParentWrite(ps, h.stdin), h.stdout)

\* A panic unwinds and the shell process exits: every descriptor it holds is closed.
CloseAllParent(ps) ==
  [p \in DOMAIN ps |-> [ps[p] EXCEPT !.pr = FALSE, !.pw = FALSE]]

\* A child exits: the descriptors it holds are closed.
CloseChildEnds(ps, c) ==
  LET a == IF c.stdin = None THEN ps ELSE [ps EXCEPT ![c.stdin].cr = FALSE]
  IN IF c.stdout = None THEN a ELSE [a EXCEPT ![c.stdout].cw = FALSE]

ReadEndOpen(q) == q.pr \/ q.cr
WriteEndOpen(q) == q.pw \/ q.cw

\* The pipe ends the shell holds open.
ParentEnds ==
  {<<p, "r">> : p \in {q \in DOMAIN pipes : pipes[q].pr}}
    \cup {<<p, "w">> : p \in {q \in DOMAIN pipes : pipes[q].pw}}

(* ---------------------------- main ------------------------------------ *)

\* A panic on the main thread: the message goes to stderr and the shell exits.
Panic(msg) ==
  /\ pc' = "crashed"
  /\ stderr' = Append(stderr, msg)
  /\ pipes' = CloseAllParent(pipes)

\* The top of the loop: the iteration's values are gone, the prompt is printed.
Prompt ==
  /\ pc = "looping"
  /\ pc' = "prompt"
  /\ commands' = <<>>
  /\ i' = 0
  /\ child' = NoChild
  /\ processes' = <<>>
  /\ w' = 0
  /\ procs' = <<>>
  /\ pipes' = <<>>
  /\ tty' = <<>>
  /\ stderr' = <<>>
  /\ spawnLog' = <<>>
  /\ waitLog' = <<>>
  /\ statuses' = <<>>
  /\ exitLog' = <<>>
  /\ handler' = "none"
  /\ lastRead' = "none"

\* read_line fails: break.
ReadErr ==
  /\ pc = "prompt"
  /\ pc' = "exited"
  /\ lastRead' = "err"
  /\ UNCHANGED <<commands, i, child, processes, w, procs, pipes, tty, stderr,
                 spawnLog, waitLog, statuses, exitLog, handler>>

\* read_line is Ok(0) at end of input: `input` stays empty and the iteration
\* goes on with it; args is empty and args[0] is out of bounds.
ReadEof ==
  /\ pc = "prompt"
  /\ LET input == Trim(<<>>) IN
       /\ input # <<"quit">>
       /\ ~IsPipeline(SplitCommands(input))
       /\ SplitWhitespace(input) = <<>>
       /\ commands' = SplitCommands(input)
  /\ Panic("index out of bounds")
  /\ lastRead' = "eof"
  /\ UNCHANGED <<i, child, processes, w, procs, tty, spawnLog, waitLog, statuses,
                 exitLog, handler>>

\* input == "quit": break.
Quit ==
  /\ pc = "prompt"
  /\ \E pl \in ParsedLines : pl.input = <<"quit">>
  /\ pc' = "exited"
  /\ lastRead' = "line"
  /\ UNCHANGED <<commands, i, child, processes, w, procs, pipes, tty, stderr,
                 spawnLog, waitLog, statuses, exitLog, handler>>

\* commands.len() > 1: execute_pipeline(&commands) is entered.
EnterPipeline ==
  /\ pc = "prompt"
  /\ \E pl \in ParsedLines :
       /\ pl.input # <<"quit">>
       /\ IsPipeline(pl.commands)
       /\ commands' = pl.commands
  /\ pc' = "spawn"
  /\ handler' = "pipeline"
  /\ lastRead' = "line"
  /\ UNCHANGED <<i, child, processes, w, procs, pipes, tty, stderr,
                 spawnLog, waitLog, statuses, exitLog>>

\* The single-command branch with no word at all: args[0] is out of bounds.
SingleIndexPanic ==
  /\ pc = "prompt"
  /\ \E pl \in ParsedLines :
       /\ pl.input # <<"quit">>
       /\ ~IsPipeline(pl.commands)
       /\ SplitWhitespace(pl.input) = <<>>
       /\ commands' = pl.commands
  /\ Panic("index out of bounds")
  /\ lastRead' = "line"
  /\ UNCHANGED <<i, child, processes, w, procs, tty, spawnLog, waitLog, statuses,
                 exitLog, handler>>

\* The "kill" arm with no argument: args[1] is out of bounds.
KillIndexPanic ==
  /\ pc = "prompt"
  /\ \E pl \in ParsedLines :
       LET args == SplitWhitespace(pl.input) IN
       /\ pl.input # <<"quit">>
       /\ ~IsPipeline(pl.commands)
       /\ args # <<>>
       /\ args[1] = <<"kill">>
       /\ Len(args) < 2
       /\ commands' = pl.commands
  /\ Panic("index out of bounds")
  /\ handler' = "builtin"
  /\ lastRead' = "line"
  /\ UNCHANGED <<i, child, processes, w, procs, tty, spawnLog, waitLog, statuses,
                 exitLog>>

\* The "kill" arm with an argument: args[1] is parsed; when it is a number the
\* external kill is run with its output captured and its result discarded, and
\* otherwise nothing is done.  Neither changes what the shell or the terminal holds.
KillBuiltin ==
  /\ pc = "prompt"
  /\ \E pl \in ParsedLines :
       LET args == SplitWhitespace(pl.input) IN
       /\ pl.input # <<"quit">>
       /\ ~IsPipeline(pl.commands)
       /\ args # <<>>
       /\ args[1] = <<"kill">>
       /\ Len(args) >= 2
       /\ commands' = pl.commands
  /\ pc' = "looping"
  /\ handler' = "builtin"
  /\ lastRead' = "line"
  /\ UNCHANGED <<i, child, processes, w, procs, pipes, tty, stderr,
                 spawnLog, waitLog, statuses, exitLog>>

\* execute_command: the program is not found, status() is Err and expect panics.
SingleSpawnPanic ==
  /\ pc = "prompt"
  /\ \E pl \in ParsedLines :
       /\ pl.input # <<"quit">>
       /\ ~IsPipeline(pl.commands)
       /\ SplitWhitespace(pl.input) # <<>>
       /\ ~IsBuiltin(SplitWhitespace(pl.input)[1])
       /\ ~Found(SplitWhitespace(pl.input)[1])
       /\ commands' = pl.commands
  /\ Panic("Command failed to execute")
  /\ handler' = "command"
  /\ lastRead' = "line"
  /\ UNCHANGED <<i, child, processes, w, procs, tty, spawnLog, waitLog, statuses,
                 exitLog>>

\* What a program run alone on the terminal prints, given the bytes it generates
\* (gen) or is typed (cat), and the status it exits with.
SingleOutput(prog, data) == IF prog = "false" THEN <<>> ELSE data
SingleStatus(prog) == IF prog = "false" THEN 1 ELSE 0

\* execute_command: the program runs to its end with inherited streams.
SingleRun ==
  /\ pc = "prompt"
  /\ \E pl \in ParsedLines, data \in DataSeqs :
       LET args == SplitWhitespace(pl.input) IN
       /\ pl.input # <<"quit">>
       /\ ~IsPipeline(pl.commands)
       /\ args # <<>>
       /\ ~IsBuiltin(args[1])
       /\ Found(args[1])
       /\ ProgramOf(args[1]) = "false" => data = <<>>
       /\ commands' = pl.commands
       /\ tty' = SingleOutput(ProgramOf(args[1]), data)
       /\ stderr' = IF SingleStatus(ProgramOf(args[1])) # 0
                      THEN <<"Command exited with status">> ELSE <<>>
  /\ pc' = "looping"
  /\ handler' = "command"
  /\ lastRead' = "line"
  /\ UNCHANGED <<i, child, processes, w, procs, pipes, spawnLog, waitLog, statuses,
                 exitLog>>

(* ---------------------------- execute_pipeline ------------------------ *)

N == Len(commands)

\* .stdin(if i > 0 { Stdio::piped() } else { Stdio::inherit() })
StdinPiped(k) == k > 0

\* .stdout(if i < commands.len() - 1 { Stdio::piped() } else { Stdio::inherit() })
StdoutPipedOffByOne(k, n) == k < n
StdoutPiped(k, n) == k < n - 1

\* The bytes a freshly spawned program may yield from a source of its own: what
\* gen generates, or what the user types to a cat that reads the terminal.
SourceData(prog, stdin) ==
  IF prog = "gen" \/ (prog = "cat" /\ stdin = None) THEN DataSeqs ELSE {<<>>}

\* parts[0] with no word in the stage: the index is out of bounds.
SpawnIndexPanic ==
  /\ pc = "spawn"
  /\ SplitWhitespace(commands[i + 1]) = <<>>
  /\ Panic("index out of bounds")
  /\ UNCHANGED <<commands, i, child, processes, w, procs, tty,
                 spawnLog, waitLog, statuses, exitLog, handler, lastRead>>

\* spawn() is Err (program not found): expect panics.
SpawnFail ==
  /\ pc = "spawn"
  /\ SplitWhitespace(commands[i + 1]) # <<>>
  /\ ~Found(SplitWhitespace(commands[i + 1])[1])
  /\ Panic("Failed to start command")
  /\ UNCHANGED <<commands, i, child, processes, w, procs, tty,
                 spawnLog, waitLog, statuses, exitLog, handler, lastRead>>

\* Command::new(parts[0])...spawn() succeeds: a fresh pipe for each piped stream,
\* the child's ends in the child, the other ends in the returned handle.
SpawnStage ==
  /\ pc = "spawn"
  /\ SplitWhitespace(commands[i + 1]) # <<>>
  /\ Found(SplitWhitespace(commands[i + 1])[1])
  /\ LET prog == ProgramOf(SplitWhitespace(commands[i + 1])[1])
         pin == IF StdinPiped(i) THEN Len(pipes) + 1 ELSE None
         pout == IF StdoutPiped(i, N)
                   THEN Len(pipes) + (IF StdinPiped(i) THEN 2 ELSE 1)
                   ELSE None
     IN /\ pipes' = pipes \o (IF StdinPiped(i) THEN <<NewStdinPipe>> ELSE <<>>)
                          \o (IF StdoutPiped(i, N) THEN <<NewStdoutPipe>> ELSE <<>>)
        /\ \E data \in SourceData(prog, pin) :
             procs' = Append(procs,
                        [stage |-> i, prog |-> prog, stdin |-> pin, stdout |-> pout,
                         state |-> "running", code |-> 0,
                         data |-> data, sent |-> 0, held |-> <<>>])
        /\ child' = [stdin |-> pin, stdout |-> pout]
  /\ spawnLog' = Append(spawnLog, i)
  /\ pc' = "link"
  /\ UNCHANGED <<commands, i, processes, w, tty, stderr, waitLog, statuses, exitLog, handler, lastRead>>

\* Where the spawn loop goes after processes.push(child) in iteration k of n.
AfterPushEarlyWait(k, n) == "wait"
AfterPush(k, n) == IF k + 1 < n THEN "spawn" ELSE "wait"

\* Lines 93-98: for i > 0 the previous handle's stdout is taken and stored in
\* child.stdout (whose former value is dropped); then the handle is pushed.
LinkStage ==
  /\ pc = "link"
  /\ IF i > 0 /\ processes[i].stdout = None
       THEN /\ Panic("Failed to take stdout")
            /\ UNCHANGED <<i, child, processes>>
       ELSE /\ IF i > 0
                 THEN /\ pipes' = CloseParentRead(pipes, child.stdout)
                      /\ processes' =
                           Append([processes EXCEPT ![i].stdout = None],
                                  [child EXCEPT !.stdout = processes[i].stdout])
                 ELSE /\ pipes' = pipes
                      /\ processes' = Append(processes, child)
            /\ i' = i + 1
            /\ child' = NoChild
            /\ pc' = AfterPush(i, N)
            /\ UNCHANGED stderr
  /\ UNCHANGED <<commands, w, procs, tty, spawnLog, waitLog, statuses, exitLog, handler, lastRead>>

\* The handle the wait loop takes next: `for mut process in processes`.
NextHandleStuck(k) == 1
NextHandle(k) == k + 1

\* Child::wait, first half: the handle's stdin is dropped before blocking.
WaitClose ==
  /\ pc = "wait"
  /\ w < Len(processes)
  /\ LET h == NextHandle(w) IN
       /\ pipes' = CloseParentWrite(pipes, processes[h].stdin)
       /\ processes' = [processes EXCEPT ![h].stdin = None]
       /\ waitLog' = Append(waitLog, h - 1)
  /\ pc' = "reap"
  /\ UNCHANGED <<commands, i, child, w, procs, tty, stderr, spawnLog,
                 statuses, exitLog, handler, lastRead>>

\* Child::wait, second half: the child has exited and its status is collected;
\* the handle is dropped at the end of the loop body, and after the last handle
\* execute_pipeline returns to the command loop.
WaitReap ==
  /\ pc = "reap"
  /\ LET h == NextHandle(w) IN
       /\ procs[h].state = "zombie"
       /\ procs' = [procs EXCEPT ![h].state = "reaped"]
       /\ statuses' = Append(statuses, procs[h].code)
       /\ pipes' = DropChild(pipes, processes[h])
       /\ processes' = [processes EXCEPT ![h] = NoChild]
  /\ w' = w + 1
  /\ pc' = IF w + 1 < Len(processes) THEN "wait" ELSE "looping"
  /\ UNCHANGED <<commands, i, child, tty, stderr, spawnLog, waitLog, exitLog, handler, lastRead>>

\* Child::wait is Err: expect panics.
WaitFail ==
  /\ pc = "reap"
  /\ procs[NextHandle(w)].state = "zombie"
  /\ Panic("Failed to wait for command")
  /\ UNCHANGED <<commands, i, child, processes, w, procs, tty,
                 spawnLog, waitLog, statuses, exitLog, handler, lastRead>>

(* ---------------------------- child processes ------------------------- *)

Running(k) == k \in DOMAIN procs /\ procs[k].state = "running"

\* The byte child k writes next, as a sequence of at most one byte.
Pending(c) ==
  IF c.prog = "gen"
    THEN (IF c.sent < Len(c.data) THEN <<c.data[c.sent + 1]>> ELSE <<>>)
    ELSE IF c.prog = "cat" THEN c.held ELSE <<>>

\* The child after the pending byte was written.
Written(c) ==
  IF c.prog = "gen" THEN [c EXCEPT !.sent = c.sent + 1] ELSE [c EXCEPT !.held = <<>>]

\* write(1, ..): to the terminal, or into the pipe while it has room and a reader.
ChildWrite(k) ==
  /\ Running(k)
  /\ Pending(procs[k]) # <<>>
  /\ IF procs[k].stdout = None
       THEN /\ tty' = Append(tty, Pending(procs[k])[1])
            /\ pipes' = pipes
       ELSE /\ ReadEndOpen(pipes[procs[k].stdout])
            /\ Len(pipes[procs[k].stdout].buf) < PipeCapacity
            /\ pipes' = [pipes EXCEPT ![procs[k].stdout].buf =
                                        Append(@, Pending(procs[k])[1])]
            /\ tty' = tty
  /\ procs' = [procs EXCEPT ![k] = Written(procs[k])]
  /\ UNCHANGED <<pc, commands, i, child, processes, w, stderr,
                 spawnLog, waitLog, statuses, exitLog, handler, lastRead>>

\* write(1, ..) into a pipe with no read end left: SIGPIPE ends the child.
ChildSigpipe(k) ==
  /\ Running(k)
  /\ Pending(procs[k]) # <<>>
  /\ procs[k].stdout # None
  /\ ~ReadEndOpen(pipes[procs[k].stdout])
  /\ procs' = [procs EXCEPT ![k].state = "zombie", ![k].code = 141]
  /\ pipes' = CloseChildEnds(pipes, procs[k])
  /\ exitLog' = Append(exitLog, procs[k].stage)
  /\ UNCHANGED <<pc, commands, i, child, processes, w, tty, stderr,
                 spawnLog, waitLog, statuses, handler, lastRead>>

\* cat: read(0, ..) yields a byte, from the terminal or from the pipe.
ChildRead(k) ==
  /\ Running(k)
  /\ procs[k].prog = "cat"
  /\ procs[k].held = <<>>
  /\ IF procs[k].stdin = None
       THEN /\ procs[k].sent < Len(procs[k].data)
            /\ procs' = [procs EXCEPT ![k].held = <<procs[k].data[procs[k].sent + 1]>>,
                                      ![k].sent = @ + 1]
            /\ pipes' = pipes
       ELSE /\ pipes[procs[k].stdin].buf # <<>>
            /\ procs' = [procs EXCEPT ![k].held = <<Head(pipes[procs[k].stdin].buf)>>]
            /\ pipes' = [pipes EXCEPT ![procs[k].stdin].buf = Tail(@)]
  /\ UNCHANGED <<pc, commands, i, child, processes, w, tty, stderr,
                 spawnLog, waitLog, statuses, exitLog, handler, lastRead>>

\* read(0, ..) yields end-of-input: the source is used up, or the pipe is empty
\* and no write end of it is open.
AtEof(c) ==
  IF c.stdin = None THEN c.sent = Len(c.data)
  ELSE pipes[c.stdin].buf = <<>> /\ ~WriteEndOpen(pipes[c.stdin])

\* The program has nothing left to do and exits on its own (false at once, and
\* so does kill, which is given no process to signal and fails).
Finished(c) ==
  \/ c.prog \in {"false", "kill"}
  \/ c.prog = "gen" /\ c.sent = Len(c.data)
  \/ c.prog = "cat" /\ c.held = <<>> /\ AtEof(c)

ExitCode(c) == IF c.prog \in {"false", "kill"} THEN 1 ELSE 0

ChildExit(k) ==
  /\ Running(k)
  /\ Finished(procs[k])
  /\ procs' = [procs EXCEPT ![k].state = "zombie", ![k].code = ExitCode(procs[k])]
  /\ pipes' = CloseChildEnds(pipes, procs[k])
  /\ exitLog' = Append(exitLog, procs[k].stage)
  /\ UNCHANGED <<pc, commands, i, child, processes, w, tty, stderr,
                 spawnLog, waitLog, statuses, handler, lastRead>>

(* ---------------------------- specification --------------------------- *)

\* The bound on the number of processes one line can spawn.
MaxProcs == MaxLineLen

ShellStep ==
  \/ Prompt
  \/ ReadErr
  \/ ReadEof
  \/ Quit
  \/ EnterPipeline
  \/ SingleIndexPanic
  \/ KillIndexPanic
  \/ KillBuiltin
  \/ SingleSpawnPanic
  \/ SingleRun
  \/ SpawnIndexPanic
  \/ SpawnFail
  \/ SpawnStage
  \/ LinkStage
  \/ WaitClose
  \/ WaitReap
  \/ WaitFail

ChildStep ==
  \E k \in 1..MaxProcs :
    \/ ChildWrite(k)
    \/ ChildSigpipe(k)
    \/ ChildRead(k)
    \/ ChildExit(k)

Next == ShellStep \/ ChildStep

Spec == Init /\ [][Next]_vars

(* ---------------------------- properties ------------------------------ *)

\* The shell is inside execute_pipeline.
InPipeline == pc \in {"spawn", "link", "wait", "reap"}

\* execute_pipeline has returned to the command loop.
Returned == pc = "looping" /\ N > 1

\* Every stage of the pipeline has been spawned.
AllSpawned == N > 1 /\ Len(spawnLog) = N

\* The program stage k (0-based) names, or "none".
StageProgram(k) ==
  LET parts == SplitWhitespace(commands[k + 1])
  IN IF parts # <<>> /\ Found(parts[1]) THEN ProgramOf(parts[1]) ELSE "none"

\* Stage 0 writes bytes of its own and every later stage copies input to output.
SourceThenCopies ==
  /\ N > 1
  /\ StageProgram(0) \in {"gen", "cat"}
  /\ \A k \in 1..(N - 1) : StageProgram(k) = "cat"

\* The last message on the shell's error stream, or "".
LastError == IF stderr = <<>> THEN "" ELSE stderr[Len(stderr)]

\* C1: the pipe stage k writes its standard output to is the pipe stage k+1
\* reads its standard input from, for every two adjacent spawned stages.
C1_StageOutputFeedsNextInput ==
  \A k \in 1..(Len(procs) - 1) :
    procs[k].stdout # None /\ procs[k].stdout = procs[k + 1].stdin

\* C2: once every stage of a pipeline of N >= 2 stages is spawned, exactly N-1
\* pipes have been created and exactly N processes spawned.
C2_ChannelAndProcessCount ==
  AllSpawned => Len(pipes) = N - 1 /\ Len(procs) = N

\* C3: stages are spawned in stage order; no wait begins before all N stages are
\* spawned; waits begin in spawn order, each handle at most once; and when
\* execute_pipeline returns every handle was waited on exactly once.
C3_SpawnThenWaitInOrder ==
  /\ spawnLog = [k \in 1..Len(spawnLog) |-> k - 1]
  /\ waitLog # <<>> => Len(spawnLog) = N
  /\ Len(waitLog) <= Len(spawnLog)
  /\ waitLog = [k \in 1..Len(waitLog) |-> spawnLog[k]]
  /\ Len(statuses) <= Len(waitLog)
  /\ Returned => waitLog = spawnLog /\ Len(waitLog) = N /\ Len(statuses) = N

C3_Witness ==
  Returned /\ N = 3 /\ waitLog = <<0, 1, 2>> /\ Len(statuses) = 3

\* C4: a 3-stage pipeline whose first stage produces output and whose later
\* stages copy until end-of-input never gets stuck inside execute_pipeline:
\* while the shell is in it, some process can take a step.
C4_NoDeadlock ==
  (InPipeline /\ N = 3 /\ SourceThenCopies) => ENABLED Next

\* C5: for a pipeline whose first stage writes B, longer than one pipe buffer,
\* and whose later stages copy, the terminal shows exactly B once the pipeline
\* has returned or can go no further.
C5_DataIntegrity ==
  (/\ SourceThenCopies
   /\ procs # <<>>
   /\ Len(procs[1].data) > PipeCapacity
   /\ Returned \/ (InPipeline /\ ~ENABLED Next))
    => tty = procs[1].data

\* C6: once all stages are spawned and the wait phase has begun, the shell
\* holds no open end of any pipe of the pipeline.
C6_CloseAfterHandoff ==
  (AllSpawned /\ pc \in {"wait", "reap"}) => ParentEnds = {}

\* C7: when execute_pipeline returns after all stages were spawned and waited
\* on, the shell holds no open end of any pipe of the pipeline.
C7_NoEndOpenAfterReturn ==
  (Returned /\ Len(statuses) = N) => ParentEnds = {}

C7_Witness ==
  Returned /\ N = 3 /\ Len(statuses) = 3 /\ Len(pipes) > 0 /\ ParentEnds = {}

\* C8: a spawn failure or a wait failure in a pipeline does not end the shell.
C8_ErrorsDoNotEndSession ==
  LastError \in {"Failed to start command", "Failed to wait for command"}
    => pc # "crashed"

\* C9: after a stage failed to spawn, no further stage is spawned, and once the
\* shell has left execute_pipeline every stage spawned before it was reaped.
C9_SpawnFailureReapsSpawned ==
  LastError = "Failed to start command" =>
    /\ Len(procs) = i
    /\ ~InPipeline => \A k \in DOMAIN procs : procs[k].state = "reaped"

\* C10: when a pipeline has returned, a failure is reported if and only if some
\* stage exited with a failure status.
C10_OverallResult ==
  Returned => ((\E k \in DOMAIN statuses : statuses[k] # 0) <=> stderr # <<>>)

C12_UnreadableSourceEndsCleanly ==
  lastRead \in {"err", "eof"} => pc = "exited" /\ handler = "none"

\* C13: a spawned stage has the terminal as its input if and only if it is
\* stage 0, and the terminal as its output if and only if it is stage N-1; its
\* other streams are pipes.
C13_WiringPolicy ==
  \A k \in DOMAIN procs :
    /\ procs[k].stdin = None <=> procs[k].stage = 0
    /\ procs[k].stdout = None <=> procs[k].stage = N - 1

C13_Witness ==
  /\ N = 3 /\ Len(procs) = 3
  /\ procs[2].stdin # None /\ procs[2].stdout # None
  /\ procs[1].stdin = None /\ procs[3].stdout = None

\* C14: the stream fields of a process handle are those its spawn gave it: a
\* handle's stdout is None or the read end of its own process's stdout pipe,
\* never the end of a previous stage's pipe assigned after the spawn.
C14_WiringFixedAtSpawn ==
  \A k \in DOMAIN processes :
    processes[k].stdout # None => processes[k].stdout = procs[k].stdout

\* C15: the wait loop is never held up by the order in which the stages exit:
\* the wait on the next handle in spawn order can begin whenever the loop is at
\* it, it returns as soon as that handle's own stage has exited, whatever the
\* other stages did, and at the return of execute_pipeline every stage is reaped.
C15_OutOfOrderCompletion ==
  /\ pc = "wait" => ENABLED WaitClose
  /\ (pc = "reap" /\ procs[w + 1].state # "running") => ENABLED WaitReap
  /\ Returned => \A k \in DOMAIN procs : procs[k].state = "reaped"

C15_Witness ==
  /\ Returned /\ N = 3 /\ Len(exitLog) = 3
  /\ exitLog[1] = 2 /\ exitLog[3] = 0

\* C16: no line the user types makes an index of main or execute_pipeline go
\* out of bounds.
C16_NoIndexOutOfBounds ==
  lastRead = "line" => LastError # "index out of bounds"

\* C17: the write end of the stdin pipe of every stage i > 0 is held by the
\* shell until the shell's wait on stage i begins, and a copying stage i > 0
\* has not exited before the shell collected every stage j < i.
C17_StdinHeldUntilOwnWait ==
  \A k \in DOMAIN procs :
    procs[k].stage > 0 =>
      /\ Len(waitLog) < k => pipes[procs[k].stdin].pw
      /\ (procs[k].prog = "cat" /\ procs[k].state # "running")
           => Len(statuses) >= k - 1

\* The shell is between two iterations of the spawn loop or in the wait loop,
\* and has not yet dropped the last handle after its wait.
HoldsHandles ==
  /\ handler = "pipeline"
  /\ processes # <<>>
  /\ pc # "link"
  /\ Len(statuses) < N

\* C18: from the end of each spawn iteration until the last handle is dropped
\* after its wait, the shell holds exactly one read end, that of stage 0's
\* stdout pipe, in the stdout field of the handle pushed last, and has read
\* nothing from it.
C18_OneReadEndHeld ==
  HoldsHandles =>
    /\ {p \in DOMAIN pipes : pipes[p].pr} = {procs[1].stdout}
    /\ processes[Len(processes)].stdout = procs[1].stdout
    /\ \A k \in 1..(Len(processes) - 1) : processes[k].stdout = None
    /\ pipes[procs[1].stdout].buf = SubSeq(procs[1].data, 1, Len(pipes[procs[1].stdout].buf))

\* Holds: the same, in the states in which the shell has not panicked.
OneReadEndHeldWhileRunning ==
  pc # "crashed" => C18_OneReadEndHeld

\* Holds: the stdin property above, in the states in which the shell has not panicked.
StdinHeldWhileRunning ==
  pc # "crashed" => C17_StdinHeldUntilOwnWait

==========================================================================
